---- MODULE Spec2Model ----
(***************************************************************************)
(* Complaint session lifecycle and AI enrichment pipeline.                 *)
(*                                                                         *)
(* The store (MongoDB collections complaint_sessions and                   *)
(* ai_complaint_tags), the in-process timer map of the LINE webhook        *)
(* handler, and every handler invocation (a task) with its position.       *)
(* Each `await` of a handler is one step of its task: the store operation  *)
(* awaited, together with the synchronous code that runs before it.        *)
(* A mongoose document held by a handler is a local copy; save() sends     *)
(* only its modified paths ($push of pushed entries, $set of assigned      *)
(* fields), the schemas having versionKey: false.                          *)
(***************************************************************************)
EXTENDS Integers, Sequences, FiniteSets, TLC

\* ---- bounds of the model
NumUsers == 2
NumCids == 2
NumAnalyses == 2
MaxSeqTasks == 4
MaxConcTasks == 3
MaxInFlight == 2
MaxEnrichChat == 3
MaxEnrichTasks == 3
MaxBatch == 2
MaxLimit == 2
MaxFaultTasks == 3
MaxWebTasks == 3
MaxCapTasks == 3
CapSlack == 3
MaxSweepTasks == 4

\* ---- program constants
MaxChatLogs == 500
MaxAttempts == 5
DefaultConcurrency == 3
SweepConcurrency == 2

Users == 1..NumUsers
Cids == 1..NumCids
Analyses == 1..NumAnalyses

VARIABLES
  sessions,                 \* complaint_sessions collection, index = _id
  tags,                     \* ai_complaint_tags collection
  activeComplaintSessions,  \* LineWebhookHandler map userId -> timeout (0: no entry)
  timerQueue,               \* pending setTimeout callbacks: [id, user]
  tasks,                    \* handler invocations, in dispatch order
  clock                     \* new Date() at the next end_time assignment

vars == <<sessions, tags, activeComplaintSessions, timerQueue, tasks, clock>>

\* ------------------------------------------------------------------------
\* Transcript entries (ChatLogSchema without the timestamp)

Entry(d, ty, m) == [direction |-> d, message_type |-> ty, message |-> m]

CmdComplain == Entry("user", "command", "/complain")
CmdSubmit == Entry("user", "command", "/submit")
UserText == Entry("user", "text", "words")
UserCancel == Entry("user", "text", "/cancel")
UserMedia == Entry("user", "image", "[IMAGE] id")
BotStart == Entry("bot", "text", "startMessage")
BotSubmit == Entry("bot", "text", "submitMessage")
BotMedia == Entry("bot", "text", "responseMessage")
BotSubmitted == Entry("bot", "text", "Your complaint has been submitted")
SysCancelled == Entry("system", "text", "Session cancelled due to inactivity")
SysTimeout == Entry("system", "timeout", "Session auto-submitted due to 10-minute timeout")
HrNote == Entry("bot", "text", "[HR Note]")

\* ------------------------------------------------------------------------
\* Store queries and updates on complaint_sessions

SessionIds == 1..Len(sessions)

Min(S) == CHOOSE x \in S : \A y \in S : x <= y

\* the wrong status literal in the query
FindOpenWrongStatus(u) ==
  LET ids == {s \in SessionIds : sessions[s].user_id = u /\ sessions[s].status = "submitted"}
  IN IF ids = {} THEN 0 ELSE Min(ids)

\* findOne({ user_id, status: 'open' }): the first match in insertion order, 0 for null
FindOpen(u) ==
  LET ids == {s \in SessionIds : sessions[s].user_id = u /\ sessions[s].status = "open"}
  IN IF ids = {} THEN 0 ELSE Min(ids)

\* a collection without the unique index on complaint_id, and a lookup that finds nothing
ComplaintIdNeverTaken(c) == FALSE

\* findOne({ complaint_id }) finds a document
ComplaintIdTaken(c) == \E s \in SessionIds : sessions[s].complaint_id = c

NewSession(u, c) ==
  [user_id |-> u, complaint_id |-> c, status |-> "open", end_time |-> 0,
   chat_logs |-> <<CmdComplain>>]

\* the chat_logs validator of the schema
ValidLogs(logs) == Len(logs) >= 1 /\ Len(logs) <= MaxChatLogs

StorePush(ss, sid, e) == [ss EXCEPT ![sid].chat_logs = Append(@, e)]

StoreClose(ss, sid, st, now, e) ==
  [ss EXCEPT ![sid].status = st, ![sid].end_time = now, ![sid].chat_logs = Append(@, e)]

\* ------------------------------------------------------------------------
\* Documents held by a handler

NoDoc == [sid |-> 0, complaint_id |-> 0, status |-> "none", chat_logs |-> <<>>]

Load(s) ==
  [sid |-> s, complaint_id |-> sessions[s].complaint_id, status |-> sessions[s].status,
   chat_logs |-> sessions[s].chat_logs]

DocPush(doc, e) == [doc EXCEPT !.chat_logs = Append(@, e)]

DocClose(doc, st, e) == [doc EXCEPT !.status = st, !.chat_logs = Append(@, e)]

\* the guard of addChatLog
CanAdd(doc) == Len(doc.chat_logs) < MaxChatLogs

\* ------------------------------------------------------------------------
\* Tasks

NoSummary == [complaint_id |-> 0, analysis |-> 0, message_count |-> 0]

TaskIds == 1..Len(tasks)

NewTask(k, u, p) ==
  [kind |-> k, user |-> u, pc |-> p, doc |-> NoDoc, sid |-> 0, cid |-> 0, attempts |-> 0,
   reply |-> "none", replyCid |-> 0, result |-> "none",
   parent |-> 0, ids |-> <<>>, conc |-> 0, idx |-> 0, limit |-> 0,
   processed |-> <<>>, errors |-> <<>>, skipped |-> <<>>,
   called |-> FALSE, summary |-> NoSummary,
   hadOpen |-> FindOpen(u) # 0,
   overlap |-> {t \in TaskIds : tasks[t].pc # "done"}]

Upd(t, r) == [tasks EXCEPT ![t] = r]

\* the handler returns: its reply and what it did
Finish(tk, rep, rcid, res) ==
  [tk EXCEPT !.pc = "done", !.doc = NoDoc, !.reply = rep, !.replyCid = rcid, !.result = res]

\* catch (error) { send_error_message(replyToken) }
Fail(tk) == Finish(tk, "error", 0, "error")

Idle == \A t \in TaskIds : tasks[t].pc = "done"

\* ------------------------------------------------------------------------
\* Timers

TimerIds == 1..(Cardinality(timerQueue) + NumUsers + 1)

\* clear_session_timeout
ClearQueue(u) ==
  {tm \in timerQueue : tm.id # activeComplaintSessions[u]}

ClearMap(u) == [activeComplaintSessions EXCEPT ![u] = 0]

\* setTimeout returns a handle that no pending timer and no entry of the map has: the
\* timer that replaces a cleared one is another timer
FreshTimer(u) ==
  Min({i \in TimerIds :
        /\ \A tm \in timerQueue : tm.id # i
        /\ \A v \in Users : activeComplaintSessions[v] # i})

\* setup_session_timeout
\* arming without clear_session_timeout: the previous timer stays pending
SetupQueueStacking(u) == timerQueue \cup {[id |-> FreshTimer(u), user |-> u]}

SetupQueue(u) == ClearQueue(u) \cup {[id |-> FreshTimer(u), user |-> u]}

SetupMap(u) == [activeComplaintSessions EXCEPT ![u] = FreshTimer(u)]

\* ------------------------------------------------------------------------
Init ==
  /\ sessions = <<>>
  /\ tags = <<>>
  /\ activeComplaintSessions = [u \in Users |-> 0]
  /\ timerQueue = {}
  /\ tasks = <<>>
  /\ clock = 1

\* ------------------------------------------------------------------------
\* handle_message_event: a text or non-text message arrives

ReceiveStart(u) ==
  /\ tasks' = Append(tasks, NewTask("start", u, "s_find"))
  /\ UNCHANGED <<sessions, tags, activeComplaintSessions, timerQueue, clock>>

ReceiveSubmit(u) ==
  /\ tasks' = Append(tasks, NewTask("submit", u, "b_find"))
  /\ UNCHANGED <<sessions, tags, activeComplaintSessions, timerQueue, clock>>

\* process_text_message with a text that is no command: activeSession is read first
ReceiveText(u) ==
  /\ LET s == FindOpen(u) tk == NewTask("text", u, "t_add") IN
     tasks' = Append(tasks,
       IF s # 0 THEN [tk EXCEPT !.doc = Load(s), !.sid = s]
                ELSE Finish(tk, "info", 0, "none"))
  /\ UNCHANGED <<sessions, tags, activeComplaintSessions, timerQueue, clock>>

\* process_text_message with the text /cancel: the handler has no branch for it, the
\* text takes the branch of a message in an active session
ReceiveCancel(u) ==
  /\ LET s == FindOpen(u) tk == NewTask("cancel", u, "t_add") IN
     tasks' = Append(tasks,
       IF s # 0 THEN [tk EXCEPT !.doc = Load(s), !.sid = s]
                ELSE Finish(tk, "info", 0, "none"))
  /\ UNCHANGED <<sessions, tags, activeComplaintSessions, timerQueue, clock>>

\* handle_non_text_message
ReceiveMedia(u) ==
  /\ LET s == FindOpen(u) tk == NewTask("media", u, "m_add") IN
     tasks' = Append(tasks,
       IF s # 0 THEN [tk EXCEPT !.doc = Load(s), !.sid = s]
                ELSE Finish(tk, "info", 0, "none"))
  /\ UNCHANGED <<sessions, tags, activeComplaintSessions, timerQueue, clock>>

\* the setTimeout callback of setup_session_timeout runs
TimerFire(tm) ==
  /\ tm \in timerQueue
  /\ timerQueue' = timerQueue \ {tm}
  /\ tasks' = Append(tasks, NewTask("timeout", tm.user, "x_find"))
  /\ UNCHANGED <<sessions, tags, activeComplaintSessions, clock>>

\* ------------------------------------------------------------------------
\* start_complaint_session

StartFind(t) ==
  /\ tasks[t].pc = "s_find"
  /\ LET tk == tasks[t] s == FindOpen(tk.user) IN
     tasks' = Upd(t,
       IF s # 0 THEN Finish([tk EXCEPT !.sid = s], "existing", sessions[s].complaint_id, "none")
                ELSE [tk EXCEPT !.pc = "c_open"])
  /\ UNCHANGED <<sessions, tags, activeComplaintSessions, timerQueue, clock>>

\* createNewSession resolves to its caller: start_complaint_session or complaint.create
AfterCreate(tk) == IF tk.kind = "trpc_create" THEN "c_return" ELSE "s_addcmd"

\* createNewSession: the check for an open session, then the first candidate id
CreateCheckOpen(t) ==
  /\ tasks[t].pc = "c_open"
  /\ LET tk == tasks[t] s == FindOpen(tk.user) IN
     IF s # 0
     THEN tasks' = Upd(t, [tk EXCEPT !.doc = Load(s), !.sid = s, !.pc = AfterCreate(tk)])
     ELSE \E c \in Cids : tasks' = Upd(t, [tk EXCEPT !.cid = c, !.attempts = 0, !.pc = "c_uniq"])
  /\ UNCHANGED <<sessions, tags, activeComplaintSessions, timerQueue, clock>>

\* createNewSession: one iteration of the uniqueness loop
CreateUniq(t) ==
  /\ tasks[t].pc = "c_uniq"
  /\ LET tk == tasks[t] IN
     IF ~ComplaintIdTaken(tk.cid)
     THEN tasks' = Upd(t, [tk EXCEPT !.pc = "c_save"])
     ELSE \E c \in Cids :
            tasks' = Upd(t, [tk EXCEPT !.cid = c, !.attempts = @ + 1,
                                       !.pc = IF tk.attempts + 1 < MaxAttempts
                                              THEN "c_uniq" ELSE "c_save"])
  /\ UNCHANGED <<sessions, tags, activeComplaintSessions, timerQueue, clock>>

\* createNewSession: newSession.save(), under the unique index on complaint_id
CreateSave(t) ==
  /\ tasks[t].pc = "c_save"
  /\ LET tk == tasks[t] IN
     IF ComplaintIdTaken(tk.cid)
     THEN /\ tasks' = Upd(t, Fail(tk))
          /\ UNCHANGED sessions
     ELSE /\ sessions' = Append(sessions, NewSession(tk.user, tk.cid))
          /\ tasks' = Upd(t, [tk EXCEPT !.sid = Len(sessions) + 1,
                                         !.doc = [sid |-> Len(sessions) + 1, complaint_id |-> tk.cid,
                                                  status |-> "open", chat_logs |-> <<CmdComplain>>],
                                         !.pc = AfterCreate(tk)])
  /\ UNCHANGED <<tags, activeComplaintSessions, timerQueue, clock>>

StartAddCmd(t) ==
  /\ tasks[t].pc = "s_addcmd"
  /\ LET tk == tasks[t] IN
     IF CanAdd(tk.doc)
     THEN /\ sessions' = StorePush(sessions, tk.doc.sid, CmdComplain)
          /\ tasks' = Upd(t, [tk EXCEPT !.doc = DocPush(@, CmdComplain), !.pc = "s_reply"])
     ELSE /\ tasks' = Upd(t, Fail(tk))
          /\ UNCHANGED sessions
  /\ UNCHANGED <<tags, activeComplaintSessions, timerQueue, clock>>

\* setup_session_timeout(userId), then reply_message(startMessage)
StartReply(t) ==
  /\ tasks[t].pc = "s_reply"
  /\ LET tk == tasks[t] IN
     /\ timerQueue' = SetupQueue(tk.user)
     /\ activeComplaintSessions' = SetupMap(tk.user)
     /\ tasks' = Upd(t, [tk EXCEPT !.reply = "started", !.replyCid = tk.doc.complaint_id,
                                    !.result = "started", !.pc = "s_botlog"])
  /\ UNCHANGED <<sessions, tags, clock>>

StartBotLog(t) ==
  /\ tasks[t].pc = "s_botlog"
  /\ LET tk == tasks[t] IN
     IF CanAdd(tk.doc)
     THEN /\ sessions' = StorePush(sessions, tk.doc.sid, BotStart)
          /\ tasks' = Upd(t, Finish(tk, tk.reply, tk.replyCid, tk.result))
     ELSE /\ tasks' = Upd(t, Finish(tk, tk.reply, tk.replyCid, "error"))
          /\ UNCHANGED sessions
  /\ UNCHANGED <<tags, activeComplaintSessions, timerQueue, clock>>

\* ------------------------------------------------------------------------
\* submit_complaint_session

SubmitFind(t) ==
  /\ tasks[t].pc = "b_find"
  /\ LET tk == tasks[t] s == FindOpen(tk.user) IN
     tasks' = Upd(t,
       IF s = 0 THEN Finish(tk, "no_session", 0, "none")
                ELSE [tk EXCEPT !.doc = Load(s), !.sid = s, !.pc = "b_addcmd"])
  /\ UNCHANGED <<sessions, tags, activeComplaintSessions, timerQueue, clock>>

SubmitAddCmd(t) ==
  /\ tasks[t].pc = "b_addcmd"
  /\ LET tk == tasks[t] IN
     IF CanAdd(tk.doc)
     THEN /\ sessions' = StorePush(sessions, tk.doc.sid, CmdSubmit)
          /\ tasks' = Upd(t, [tk EXCEPT !.doc = DocPush(@, CmdSubmit), !.pc = "b_submit"])
     ELSE /\ tasks' = Upd(t, Fail(tk))
          /\ UNCHANGED sessions
  /\ UNCHANGED <<tags, activeComplaintSessions, timerQueue, clock>>

\* activeSession.submit()
SubmitSave(t) ==
  /\ tasks[t].pc = "b_submit"
  /\ LET tk == tasks[t] IN
     IF ValidLogs(Append(tk.doc.chat_logs, BotSubmitted))
     THEN /\ sessions' = StoreClose(sessions, tk.doc.sid, "submitted", clock, BotSubmitted)
          /\ clock' = clock + 1
          /\ tasks' = Upd(t, [tk EXCEPT !.doc = DocClose(@, "submitted", BotSubmitted),
                                         !.result = "submitted", !.pc = "b_reply"])
     ELSE /\ tasks' = Upd(t, Fail(tk))
          /\ UNCHANGED <<sessions, clock>>
  /\ UNCHANGED <<tags, activeComplaintSessions, timerQueue>>

\* clear_session_timeout(userId), then reply_message(submitMessage)
SubmitReply(t) ==
  /\ tasks[t].pc = "b_reply"
  /\ LET tk == tasks[t] IN
     /\ timerQueue' = ClearQueue(tk.user)
     /\ activeComplaintSessions' = ClearMap(tk.user)
     /\ tasks' = Upd(t, [tk EXCEPT !.reply = "submitted", !.replyCid = tk.doc.complaint_id,
                                    !.pc = "b_botlog"])
  /\ UNCHANGED <<sessions, tags, clock>>

SubmitBotLog(t) ==
  /\ tasks[t].pc = "b_botlog"
  /\ LET tk == tasks[t] IN
     IF CanAdd(tk.doc)
     THEN /\ sessions' = StorePush(sessions, tk.doc.sid, BotSubmit)
          /\ tasks' = Upd(t, Finish(tk, tk.reply, tk.replyCid, tk.result))
     ELSE /\ tasks' = Upd(t, Finish(tk, tk.reply, tk.replyCid, "error"))
          /\ UNCHANGED sessions
  /\ UNCHANGED <<tags, activeComplaintSessions, timerQueue, clock>>

\* ------------------------------------------------------------------------
\* add_message_to_session and the acknowledgment, for a text message

\* the text of the message event
TextOf(tk) == IF tk.kind = "cancel" THEN UserCancel ELSE UserText

TextAdd(t) ==
  /\ tasks[t].pc = "t_add"
  /\ LET tk == tasks[t] IN
     IF CanAdd(tk.doc)
     THEN /\ sessions' = StorePush(sessions, tk.doc.sid, TextOf(tk))
          /\ tasks' = Upd(t, [tk EXCEPT !.doc = DocPush(@, TextOf(tk)), !.result = "added",
                                         !.pc = "t_ack"])
     ELSE /\ tasks' = Upd(t, [tk EXCEPT !.result = "swallowed", !.pc = "t_ack"])
          /\ UNCHANGED sessions
  /\ UNCHANGED <<tags, activeComplaintSessions, timerQueue, clock>>

\* setup_session_timeout(session.user_id) when the append succeeded, then the acknowledgment
TextAck(t) ==
  /\ tasks[t].pc = "t_ack"
  /\ LET tk == tasks[t] IN
     /\ IF tk.result = "added"
        THEN /\ timerQueue' = SetupQueue(tk.user)
             /\ activeComplaintSessions' = SetupMap(tk.user)
        ELSE UNCHANGED <<timerQueue, activeComplaintSessions>>
     /\ tasks' = Upd(t, Finish(tk, "ack", 0, tk.result))
  /\ UNCHANGED <<sessions, tags, clock>>

\* ------------------------------------------------------------------------
\* handle_non_text_message with an active session

MediaAdd(t) ==
  /\ tasks[t].pc = "m_add"
  /\ LET tk == tasks[t] IN
     IF CanAdd(tk.doc)
     THEN /\ sessions' = StorePush(sessions, tk.doc.sid, UserMedia)
          /\ tasks' = Upd(t, [tk EXCEPT !.doc = DocPush(@, UserMedia), !.result = "added",
                                         !.pc = "m_reply"])
     ELSE /\ tasks' = Upd(t, [tk EXCEPT !.result = "swallowed", !.pc = "m_reply"])
          /\ UNCHANGED sessions
  /\ UNCHANGED <<tags, activeComplaintSessions, timerQueue, clock>>

MediaReply(t) ==
  /\ tasks[t].pc = "m_reply"
  /\ LET tk == tasks[t] IN
     /\ IF tk.result = "added"
        THEN /\ timerQueue' = SetupQueue(tk.user)
             /\ activeComplaintSessions' = SetupMap(tk.user)
        ELSE UNCHANGED <<timerQueue, activeComplaintSessions>>
     /\ tasks' = Upd(t, [tk EXCEPT !.reply = "ack", !.pc = "m_botlog"])
  /\ UNCHANGED <<sessions, tags, clock>>

MediaBotLog(t) ==
  /\ tasks[t].pc = "m_botlog"
  /\ LET tk == tasks[t] IN
     IF CanAdd(tk.doc)
     THEN /\ sessions' = StorePush(sessions, tk.doc.sid, BotMedia)
          /\ tasks' = Upd(t, Finish(tk, tk.reply, 0, tk.result))
     ELSE /\ tasks' = Upd(t, Finish(tk, "error", 0, "error"))
          /\ UNCHANGED sessions
  /\ UNCHANGED <<tags, activeComplaintSessions, timerQueue, clock>>

\* ------------------------------------------------------------------------
\* handle_session_timeout

TimeoutFind(t) ==
  /\ tasks[t].pc = "x_find"
  /\ LET tk == tasks[t] s == FindOpen(tk.user) IN
     tasks' = Upd(t,
       IF s = 0 THEN [tk EXCEPT !.pc = "x_clear"]
       ELSE IF Len(sessions[s].chat_logs) > 1
            THEN [tk EXCEPT !.doc = Load(s), !.sid = s, !.pc = "x_note"]
            ELSE [tk EXCEPT !.doc = Load(s), !.sid = s, !.pc = "x_cancel"])
  /\ UNCHANGED <<sessions, tags, activeComplaintSessions, timerQueue, clock>>

TimeoutNote(t) ==
  /\ tasks[t].pc = "x_note"
  /\ LET tk == tasks[t] IN
     IF CanAdd(tk.doc)
     THEN /\ sessions' = StorePush(sessions, tk.doc.sid, SysTimeout)
          /\ tasks' = Upd(t, [tk EXCEPT !.doc = DocPush(@, SysTimeout), !.pc = "x_submit"])
     ELSE /\ tasks' = Upd(t, Finish(tk, "none", 0, "error"))
          /\ UNCHANGED sessions
  /\ UNCHANGED <<tags, activeComplaintSessions, timerQueue, clock>>

TimeoutSubmit(t) ==
  /\ tasks[t].pc = "x_submit"
  /\ LET tk == tasks[t] IN
     IF ValidLogs(Append(tk.doc.chat_logs, BotSubmitted))
     THEN /\ sessions' = StoreClose(sessions, tk.doc.sid, "submitted", clock, BotSubmitted)
          /\ clock' = clock + 1
          /\ tasks' = Upd(t, [tk EXCEPT !.doc = DocClose(@, "submitted", BotSubmitted),
                                         !.result = "auto_submitted", !.pc = "x_clear"])
     ELSE /\ tasks' = Upd(t, Finish(tk, "none", 0, "error"))
          /\ UNCHANGED <<sessions, clock>>
  /\ UNCHANGED <<tags, activeComplaintSessions, timerQueue>>

TimeoutCancel(t) ==
  /\ tasks[t].pc = "x_cancel"
  /\ LET tk == tasks[t] IN
     IF ValidLogs(Append(tk.doc.chat_logs, SysCancelled))
     THEN /\ sessions' = StoreClose(sessions, tk.doc.sid, "cancelled", clock, SysCancelled)
          /\ clock' = clock + 1
          /\ tasks' = Upd(t, [tk EXCEPT !.doc = DocClose(@, "cancelled", SysCancelled),
                                         !.result = "cancelled", !.pc = "x_clear"])
     ELSE /\ tasks' = Upd(t, Finish(tk, "none", 0, "error"))
          /\ UNCHANGED <<sessions, clock>>
  /\ UNCHANGED <<tags, activeComplaintSessions, timerQueue>>

\* push_message after an auto-submit, then clear_session_timeout(userId)
TimeoutClear(t) ==
  /\ tasks[t].pc = "x_clear"
  /\ LET tk == tasks[t] IN
     /\ timerQueue' = ClearQueue(tk.user)
     /\ activeComplaintSessions' = ClearMap(tk.user)
     /\ tasks' = Upd(t, Finish(tk, IF tk.result = "auto_submitted" THEN "push" ELSE "none",
                               tk.doc.complaint_id, tk.result))
  /\ UNCHANGED <<sessions, tags, clock>>

\* ------------------------------------------------------------------------
\* tRPC complaint.create and complaint.submit

TrpcCreate(u) ==
  /\ tasks' = Append(tasks, NewTask("trpc_create", u, "c_open"))
  /\ UNCHANGED <<sessions, tags, activeComplaintSessions, timerQueue, clock>>

\* complaint.create returns the session createNewSession resolved to
TrpcCreateReturn(t) ==
  /\ tasks[t].pc = "c_return"
  /\ tasks' = Upd(t, Finish(tasks[t], "success", tasks[t].doc.complaint_id, "created"))
  /\ UNCHANGED <<sessions, tags, activeComplaintSessions, timerQueue, clock>>

TrpcSubmit(u) ==
  /\ tasks' = Append(tasks, NewTask("trpc_submit", u, "r_find"))
  /\ UNCHANGED <<sessions, tags, activeComplaintSessions, timerQueue, clock>>

TrpcSubmitFind(t) ==
  /\ tasks[t].pc = "r_find"
  /\ LET tk == tasks[t] s == FindOpen(tk.user) IN
     tasks' = Upd(t,
       IF s = 0 THEN Finish(tk, "no_session", 0, "none")
       ELSE IF Len(sessions[s].chat_logs) <= 1
            THEN Finish([tk EXCEPT !.sid = s], "insufficient", 0, "rejected")
            ELSE [tk EXCEPT !.doc = Load(s), !.sid = s, !.pc = "r_submit"])
  /\ UNCHANGED <<sessions, tags, activeComplaintSessions, timerQueue, clock>>

TrpcSubmitSave(t) ==
  /\ tasks[t].pc = "r_submit"
  /\ LET tk == tasks[t] IN
     IF ValidLogs(Append(tk.doc.chat_logs, BotSubmitted))
     THEN /\ sessions' = StoreClose(sessions, tk.doc.sid, "submitted", clock, BotSubmitted)
          /\ clock' = clock + 1
          /\ tasks' = Upd(t, Finish(tk, "success", tk.doc.complaint_id, "submitted"))
     ELSE /\ tasks' = Upd(t, Fail(tk))
          /\ UNCHANGED <<sessions, clock>>
  /\ UNCHANGED <<tags, activeComplaintSessions, timerQueue>>

\* ------------------------------------------------------------------------
\* PUT /api/complaints/[id]: one findOneAndUpdate, status "" when the body has none

PutUpdate(ss, sid, st, notes) ==
  [ss EXCEPT ![sid].status = IF st = "" THEN @ ELSE st,
             ![sid].chat_logs = IF notes THEN Append(@, HrNote) ELSE @]

PutComplaint(sid, st, notes) ==
  /\ sid \in SessionIds
  /\ st \in {"", "open", "submitted"}
  /\ sessions' = PutUpdate(sessions, sid, st, notes)
  /\ tasks' = Append(tasks, Finish([NewTask("put", sessions[sid].user_id, "done") EXCEPT !.sid = sid],
                                   "success", sessions[sid].complaint_id, "updated"))
  /\ UNCHANGED <<tags, activeComplaintSessions, timerQueue, clock>>

\* ------------------------------------------------------------------------
\* AI tagging service: processComplaintSession

\* AIComplaintTag.findOne({ complaint_session_id }) as an index into tags, 0 for null
FindTag(sid) ==
  LET is == {i \in 1..Len(tags) : tags[i].complaint_session_id = sid}
  IN IF is = {} THEN 0 ELSE Min(is)

\* cleanUserMessage on the bodies of the transcript vocabulary
cleanUserMessage(m) == IF m \in {"/complain", "/submit", ""} THEN "" ELSE m

RECURSIVE CleanedUserMessages(_)
CleanedUserMessages(logs) ==
  IF logs = <<>> THEN <<>>
  ELSE LET e == Head(logs) IN
       (IF e.direction = "user" /\ e.message_type = "text" /\ cleanUserMessage(e.message) # ""
        THEN <<cleanUserMessage(e.message)>> ELSE <<>>) \o CleanedUserMessages(Tail(logs))

IsBotText(e) == e.direction = "bot" /\ e.message_type = "text"

\* createAnalysisPrompt: what of the session the prompt text embeds
createAnalysisPrompt(doc) ==
  [complaint_id |-> doc.complaint_id,
   total_messages |-> Len(doc.chat_logs),
   userMessages |-> CleanedUserMessages(doc.chat_logs),
   botMessages |-> [i \in 1..Len(SelectSeq(doc.chat_logs, IsBotText)) |->
                     SelectSeq(doc.chat_logs, IsBotText)[i].message]]

\* getSummaryForDashboard
Summary(tag) ==
  [complaint_id |-> tag.complaint_id, analysis |-> tag.analysis,
   message_count |-> tag.message_count]

\* the document processComplaintSession builds from its session snapshot; ai_processing
\* is given no processing_errors, which the schema then stores as the empty list
TagData(doc, a) ==
  [complaint_session_id |-> doc.sid, complaint_id |-> doc.complaint_id,
   message_count |-> Len(CleanedUserMessages(doc.chat_logs)), analysis |-> a,
   processing_errors |-> <<>>]

\* the schema validation of AIComplaintTag (message_count min 1)
TagValid(tag) == tag.message_count >= 1

\* the collection without its unique indexes
TagUniqueNoIndex(tag) == TRUE

\* the unique indexes on _id (aitag_<sessionId>) and complaint_session_id
TagUnique(tag) ==
  \A i \in 1..Len(tags) : tags[i].complaint_session_id # tag.complaint_session_id

\* an item that failed is reported in no list of its batch
EnrichEndDroppingErrors(t, res, sm) ==
  LET tk == tasks[t]
      fin == [Finish(tk, "none", 0, res) EXCEPT !.summary = sm]
      ok == res \in {"created", "existing"}
  IN IF tk.parent = 0
     THEN Upd(t, fin)
     ELSE [tasks EXCEPT ![t] = fin,
                        ![tk.parent].processed = IF ok THEN Append(@, tk.sid) ELSE @]

\* an enrichment invocation ends; an item of a batch reports to its batch
EnrichEnd(t, res, sm) ==
  LET tk == tasks[t]
      fin == [Finish(tk, "none", 0, res) EXCEPT !.summary = sm]
      ok == res \in {"created", "existing"}
  IN IF tk.parent = 0
     THEN Upd(t, fin)
     ELSE [tasks EXCEPT ![t] = fin,
                        ![tk.parent].processed = IF ok THEN Append(@, tk.sid) ELSE @,
                        ![tk.parent].errors = IF ok THEN @ ELSE Append(@, tk.sid)]

\* aiTagging.processComplaint: sid 0 stands for an id of no stored session
ProcessComplaint(sid) ==
  /\ tasks' = Append(tasks, [NewTask("enrich", 0, "e_find") EXCEPT !.sid = sid])
  /\ UNCHANGED <<sessions, tags, activeComplaintSessions, timerQueue, clock>>

\* a lookup that also writes the session it read
EnrichFindTouching(t) ==
  /\ tasks[t].pc = "e_find"
  /\ LET tk == tasks[t] IN
     /\ tasks' = IF tk.sid \in SessionIds
                 THEN Upd(t, [tk EXCEPT !.doc = Load(tk.sid), !.pc = "e_exist"])
                 ELSE EnrichEnd(t, "not_found", NoSummary)
     /\ sessions' = IF tk.sid \in SessionIds
                    THEN [sessions EXCEPT ![tk.sid].end_time = clock] ELSE sessions
  /\ UNCHANGED <<tags, activeComplaintSessions, timerQueue, clock>>

EnrichFind(t) ==
  /\ tasks[t].pc = "e_find"
  /\ LET tk == tasks[t] IN
     tasks' = IF tk.sid \in SessionIds
              THEN Upd(t, [tk EXCEPT !.doc = Load(tk.sid), !.pc = "e_exist"])
              ELSE EnrichEnd(t, "not_found", NoSummary)
  /\ UNCHANGED <<sessions, tags, activeComplaintSessions, timerQueue, clock>>

\* the branch on existingAnalysis
HasExisting(sid) == FindTag(sid) # 0

EnrichExisting(t) ==
  /\ tasks[t].pc = "e_exist"
  /\ LET tk == tasks[t] IN
     tasks' = IF HasExisting(tk.sid)
              THEN EnrichEnd(t, "existing", Summary(tags[FindTag(tk.sid)]))
              ELSE Upd(t, [tk EXCEPT !.called = TRUE, !.pc = "e_call"])
  /\ UNCHANGED <<sessions, tags, activeComplaintSessions, timerQueue, clock>>

\* AIComplaintTag.create(aiTagData) under the schema validation and the unique indexes
InsertTag(tag) == IF TagValid(tag) /\ TagUnique(tag) THEN Append(tags, tag) ELSE tags

CreateResult(tag) ==
  IF ~TagValid(tag) THEN "validation_error"
  ELSE IF ~TagUnique(tag) THEN "duplicate_key" ELSE "created"

\* model.generateContent(prompt) answers: an error, a text that does not parse, or an
\* analysis; then the record is built from the session snapshot and created.  The
\* answer changes nothing but the invocation's own state, so it is one step with the
\* store write that follows it.
EnrichCall(t) ==
  /\ tasks[t].pc = "e_call"
  /\ \/ \E a \in Analyses :
          LET tag == TagData(tasks[t].doc, a) res == CreateResult(tag) IN
          /\ tags' = InsertTag(tag)
          /\ tasks' = EnrichEnd(t, res, IF res = "created" THEN Summary(tag) ELSE NoSummary)
     \/ /\ tasks' = EnrichEnd(t, "provider_error", NoSummary)
        /\ UNCHANGED tags
     \/ /\ tasks' = EnrichEnd(t, "invalid_json", NoSummary)
        /\ UNCHANGED tags
  /\ UNCHANGED <<sessions, activeComplaintSessions, timerQueue, clock>>

\* ------------------------------------------------------------------------
\* batchProcessComplaints and autoProcessUnprocessed

Ids == SessionIds \cup {0}

IdLists == UNION {[1..n -> Ids] : n \in 1..MaxBatch}

\* aiTagging.batchProcessComplaints: c = 0 when the input has no concurrency
BatchProcess(ids, c) ==
  /\ tasks' = Append(tasks, [NewTask("batch", 0, "w_spawn") EXCEPT
                               !.ids = ids, !.conc = IF c = 0 THEN DefaultConcurrency ELSE c])
  /\ UNCHANGED <<sessions, tags, activeComplaintSessions, timerQueue, clock>>

\* every remaining id at once
WindowUnbounded(tk) == SubSeq(tk.ids, tk.idx + 1, Len(tk.ids))

Window(tk) ==
  SubSeq(tk.ids, tk.idx + 1, IF tk.idx + tk.conc < Len(tk.ids) THEN tk.idx + tk.conc ELSE Len(tk.ids))

\* batch.map(async (sessionId) => ...): every item of the window starts
BatchSpawn(t) ==
  /\ tasks[t].pc = "w_spawn"
  /\ LET tk == tasks[t] w == Window(tk) IN
     tasks' = Upd(t, [tk EXCEPT !.pc = "w_wait"]) \o
               [i \in 1..Len(w) |-> [NewTask("enrich", 0, "e_find") EXCEPT !.sid = w[i], !.parent = t]]
  /\ UNCHANGED <<sessions, tags, activeComplaintSessions, timerQueue, clock>>

\* await Promise.all(batchPromises), then the next window or the results
BatchJoin(t) ==
  /\ tasks[t].pc = "w_wait"
  /\ \A c \in TaskIds : tasks[c].parent = t => tasks[c].pc = "done"
  /\ LET tk == tasks[t] IN
     tasks' = Upd(t, IF tk.idx + tk.conc < Len(tk.ids)
                     THEN [tk EXCEPT !.idx = @ + tk.conc, !.pc = "w_spawn"]
                     ELSE Finish(tk, "success", 0, "batch_done"))
  /\ UNCHANGED <<sessions, tags, activeComplaintSessions, timerQueue, clock>>

RECURSIVE SubmittedDesc(_)
\* find({ status: 'submitted' }).sort({ start_time: -1 }) over the sessions 1..n
SubmittedDesc(n) ==
  IF n = 0 THEN <<>>
  ELSE (IF sessions[n].status = "submitted" THEN <<n>> ELSE <<>>) \o SubmittedDesc(n - 1)

Take(q, k) == SubSeq(q, 1, IF k < Len(q) THEN k ELSE Len(q))

\* aiTagging.autoProcessUnprocessed
AutoProcess(lim) ==
  /\ tasks' = Append(tasks, [NewTask("sweep", 0, "g_find") EXCEPT !.limit = lim])
  /\ UNCHANGED <<sessions, tags, activeComplaintSessions, timerQueue, clock>>

\* getUnprocessedComplaints: the submitted sessions, newest first, limit applied
SweepFind(t) ==
  /\ tasks[t].pc = "g_find"
  /\ tasks' = Upd(t, [tasks[t] EXCEPT !.ids = Take(SubmittedDesc(Len(sessions)), tasks[t].limit),
                                      !.pc = "g_tags"])
  /\ UNCHANGED <<sessions, tags, activeComplaintSessions, timerQueue, clock>>

\* getUnprocessedComplaints: those without a record; then the batch with concurrency 2
SweepFilter(t) ==
  /\ tasks[t].pc = "g_tags"
  /\ LET tk == tasks[t]
         un == SelectSeq(tk.ids, LAMBDA s : FindTag(s) = 0)
     IN tasks' = Upd(t, IF un = <<>>
                        THEN Finish(tk, "success", 0, "nothing")
                        ELSE [tk EXCEPT !.ids = un, !.conc = SweepConcurrency, !.pc = "w_spawn"])
  /\ UNCHANGED <<sessions, tags, activeComplaintSessions, timerQueue, clock>>

\* ------------------------------------------------------------------------
\* The webhook route of the web application (handleEvent over sessionManager), on the
\* same collection.  It has no timers.

WebBot == Entry("bot", "text", "webReply")

\* the place of a document that deleteOne removed: no field of it is stored any more
Deleted == [user_id |-> 0, complaint_id |-> 0, status |-> "deleted", end_time |-> 0,
            chat_logs |-> <<>>]

Max(S) == CHOOSE x \in S : \A y \in S : x >= y

\* findOne({ user_id, status: 'open' }).sort({ start_time: -1 }): the newest match
FindOpenLatest(u) ==
  LET ids == {s \in SessionIds : sessions[s].user_id = u /\ sessions[s].status = "open"}
  IN IF ids = {} THEN 0 ELSE Max(ids)

\* findOneAndUpdate({ user_id, status: 'open' }, { $push }, { sort }): no match, no change
PushOpenLatest(u, e) ==
  IF FindOpenLatest(u) = 0 THEN sessions ELSE StorePush(sessions, FindOpenLatest(u), e)

\* handleComplainCommand: getActiveSession
WebComplain(u) ==
  /\ LET s == FindOpenLatest(u) tk == NewTask("web_complain", u, "wc_save") IN
     tasks' = Append(tasks,
       IF s # 0 THEN Finish([tk EXCEPT !.sid = s], "existing", sessions[s].complaint_id, "none")
                ELSE tk)
  /\ UNCHANGED <<sessions, tags, activeComplaintSessions, timerQueue, clock>>

\* sessionManager.createSession: a generated complaint id, saved without a lookup, under
\* the unique index; then the reply
WebCreateSave(t) ==
  /\ tasks[t].pc = "wc_save"
  /\ LET tk == tasks[t] IN
     \E c \in Cids :
       IF ComplaintIdTaken(c)
       THEN /\ tasks' = Upd(t, Fail(tk))
            /\ UNCHANGED sessions
       ELSE /\ sessions' = Append(sessions, NewSession(tk.user, c))
            /\ tasks' = Upd(t, [tk EXCEPT !.sid = Len(sessions) + 1, !.cid = c,
                                           !.reply = "started", !.replyCid = c,
                                           !.result = "started", !.pc = "w_botlog"])
  /\ UNCHANGED <<tags, activeComplaintSessions, timerQueue, clock>>

\* sessionManager.addBotResponse after the reply
WebBotLog(t) ==
  /\ tasks[t].pc = "w_botlog"
  /\ LET tk == tasks[t] IN
     /\ sessions' = PushOpenLatest(tk.user, WebBot)
     /\ tasks' = Upd(t, Finish(tk, tk.reply, tk.replyCid, tk.result))
  /\ UNCHANGED <<tags, activeComplaintSessions, timerQueue, clock>>

\* handleSubmitCommand: getActiveSession
WebSubmit(u) ==
  /\ LET s == FindOpenLatest(u) tk == NewTask("web_submit", u, "ws_update") IN
     tasks' = Append(tasks,
       IF s = 0 THEN Finish(tk, "no_session", 0, "none") ELSE [tk EXCEPT !.sid = s])
  /\ UNCHANGED <<sessions, tags, activeComplaintSessions, timerQueue, clock>>

\* sessionManager.submitComplaint: findOneAndUpdate sets status and end_time
WebSubmitUpdate(t) ==
  /\ tasks[t].pc = "ws_update"
  /\ LET tk == tasks[t] s == FindOpenLatest(tk.user) IN
     IF s = 0
     THEN /\ tasks' = Upd(t, Finish(tk, "failed", 0, "none"))
          /\ UNCHANGED <<sessions, clock>>
     ELSE /\ sessions' = [sessions EXCEPT ![s].status = "submitted", ![s].end_time = clock]
          /\ clock' = clock + 1
          /\ tasks' = Upd(t, Finish([tk EXCEPT !.sid = s], "submitted",
                                    sessions[s].complaint_id, "submitted"))
  /\ UNCHANGED <<tags, activeComplaintSessions, timerQueue>>

\* handleCancelCommand: sessionManager.cancelSession is deleteOne({ user_id, status: 'open' })
WebCancel(u) ==
  /\ LET s == FindOpen(u) tk == [NewTask("web_cancel", u, "done") EXCEPT !.sid = s] IN
     /\ sessions' = IF s = 0 THEN sessions ELSE [sessions EXCEPT ![s] = Deleted]
     /\ tasks' = Append(tasks,
          IF s = 0 THEN Finish(tk, "no_session", 0, "none")
                   ELSE Finish(tk, "canceled", 0, "canceled"))
  /\ UNCHANGED <<tags, activeComplaintSessions, timerQueue, clock>>

\* handleRegularMessage: getActiveSession
WebMessage(u) ==
  /\ LET s == FindOpenLatest(u) tk == NewTask("web_message", u, "wm_push") IN
     tasks' = Append(tasks,
       IF s = 0 THEN Finish(tk, "info", 0, "none") ELSE [tk EXCEPT !.sid = s])
  /\ UNCHANGED <<sessions, tags, activeComplaintSessions, timerQueue, clock>>

\* sessionManager.addMessage, then the acknowledgment
WebAddMessage(t) ==
  /\ tasks[t].pc = "wm_push"
  /\ LET tk == tasks[t] IN
     /\ sessions' = PushOpenLatest(tk.user, UserText)
     /\ tasks' = Upd(t, [tk EXCEPT !.reply = "ack", !.result = "added", !.pc = "w_botlog"])
  /\ UNCHANGED <<tags, activeComplaintSessions, timerQueue, clock>>

WebReceive(u) == WebComplain(u) \/ WebSubmit(u) \/ WebCancel(u) \/ WebMessage(u)

WebStep(t) == WebCreateSave(t) \/ WebBotLog(t) \/ WebSubmitUpdate(t) \/ WebAddMessage(t)

\* ------------------------------------------------------------------------
\* A store write of a chat handler rejects (connection lost, write error)

\* the positions at which a handler awaits a write to complaint_sessions
WritePcs ==
  {"c_save", "s_addcmd", "s_botlog", "b_addcmd", "b_submit", "b_botlog",
   "t_add", "m_add", "m_botlog", "x_note", "x_submit", "x_cancel"}

\* where the rejection is caught: the catch of the handler replies with the apology,
\* add_message_to_session logs it and returns, handle_session_timeout logs it
OnWriteError(tk) ==
  CASE tk.pc \in {"c_save", "s_addcmd", "b_addcmd", "b_submit"} -> Fail(tk)
    [] tk.pc \in {"s_botlog", "b_botlog"} -> Finish(tk, tk.reply, tk.replyCid, "error")
    [] tk.pc = "t_add" -> [tk EXCEPT !.result = "swallowed", !.pc = "t_ack"]
    [] tk.pc = "m_add" -> [tk EXCEPT !.result = "swallowed", !.pc = "m_reply"]
    [] tk.pc = "m_botlog" -> Finish(tk, "error", 0, "error")
    [] OTHER -> Finish(tk, "none", 0, "error")

WriteFails(t) ==
  /\ tasks[t].pc \in WritePcs
  /\ tasks' = Upd(t, OnWriteError(tasks[t]))
  /\ UNCHANGED <<sessions, tags, activeComplaintSessions, timerQueue, clock>>

\* ------------------------------------------------------------------------
Step(t) ==
  \/ StartFind(t) \/ CreateCheckOpen(t) \/ CreateUniq(t) \/ CreateSave(t)
  \/ StartAddCmd(t) \/ StartReply(t) \/ StartBotLog(t)
  \/ SubmitFind(t) \/ SubmitAddCmd(t) \/ SubmitSave(t) \/ SubmitReply(t) \/ SubmitBotLog(t)
  \/ TextAdd(t) \/ TextAck(t)
  \/ MediaAdd(t) \/ MediaReply(t) \/ MediaBotLog(t)
  \/ TimeoutFind(t) \/ TimeoutNote(t) \/ TimeoutSubmit(t) \/ TimeoutCancel(t) \/ TimeoutClear(t)

TrpcStep(t) == TrpcCreateReturn(t) \/ TrpcSubmitFind(t) \/ TrpcSubmitSave(t)

EnrichStep(t) ==
  \/ EnrichFind(t) \/ EnrichExisting(t) \/ EnrichCall(t)
  \/ BatchSpawn(t) \/ BatchJoin(t) \/ SweepFind(t) \/ SweepFilter(t)

Receive(u) == ReceiveStart(u) \/ ReceiveSubmit(u) \/ ReceiveText(u) \/ ReceiveMedia(u)

ChatKinds ==
  {"start", "submit", "text", "cancel", "media", "timeout", "trpc_create", "trpc_submit", "put",
   "web_complain", "web_submit", "web_cancel", "web_message"}

NumChat == Cardinality({t \in TaskIds : tasks[t].kind \in ChatKinds})

NumEnrich == Cardinality({t \in TaskIds : tasks[t].kind \notin ChatKinds})

RECURSIVE EnrichLoad(_)
\* the enrichment invocations requested by the first n tasks: a single item is one, a
\* batch one and one for each of its ids, a sweep one and one for each session of its limit
EnrichLoad(n) ==
  IF n = 0 THEN 0
  ELSE EnrichLoad(n - 1) +
       (CASE tasks[n].kind = "batch" -> 1 + Len(tasks[n].ids)
          [] tasks[n].kind = "sweep" -> 1 + tasks[n].limit
          [] tasks[n].kind = "enrich" /\ tasks[n].parent = 0 -> 1
          [] OTHER -> 0)

EnrichRoom == MaxEnrichTasks - EnrichLoad(Len(tasks))

ChatIdle == \A t \in TaskIds : tasks[t].kind \in ChatKinds => tasks[t].pc = "done"

\* chat events and timeouts handled one at a time
NextSeq ==
  \/ Idle /\ Len(tasks) < MaxSeqTasks /\ \E u \in Users : Receive(u)
  \/ Idle /\ Len(tasks) < MaxSeqTasks /\ \E tm \in timerQueue : TimerFire(tm)
  \/ \E t \in TaskIds : Step(t)

SpecSeq == Init /\ [][NextSeq]_vars

InFlight == Cardinality({t \in TaskIds : tasks[t].pc # "done"})

CanDispatch == Len(tasks) < MaxConcTasks /\ InFlight < MaxInFlight

\* handlers of one webhook batch, overlapping requests and timers interleave at their awaits
Next ==
  \/ CanDispatch /\ \E u \in Users : Receive(u)
  \/ CanDispatch /\ \E tm \in timerQueue : TimerFire(tm)
  \/ CanDispatch /\ \E u \in Users : TrpcCreate(u) \/ TrpcSubmit(u)
  \/ CanDispatch /\ \E sid \in SessionIds, st \in {"", "open", "submitted"}, n \in BOOLEAN :
       (st # "" \/ n) /\ PutComplaint(sid, st, n)
  \/ \E t \in TaskIds : Step(t) \/ TrpcStep(t)

Spec == Init /\ [][Next]_vars

\* one user's chat events handled one at a time, then enrichment invocations that interleave
NextEnrich ==
  \/ Idle /\ NumEnrich = 0 /\ NumChat < MaxEnrichChat /\ Receive(1)
  \/ Idle /\ NumEnrich = 0 /\ NumChat < MaxEnrichChat /\ \E tm \in timerQueue : TimerFire(tm)
  \/ ChatIdle /\ EnrichRoom >= 1 /\ \E sid \in Ids : ProcessComplaint(sid)
  \/ ChatIdle /\ \E ids \in IdLists, c \in {0, 1} :
       EnrichRoom >= 1 + Len(ids) /\ BatchProcess(ids, c)
  \/ ChatIdle /\ \E lim \in 1..MaxLimit :
       EnrichRoom >= 1 + lim /\ AutoProcess(lim)
  \/ \E t \in TaskIds : Step(t) \/ EnrichStep(t)

SpecEnrich == Init /\ [][NextEnrich]_vars

\* chat events and timeouts handled one at a time, any store write of a handler may reject
NextFault ==
  \/ Idle /\ Len(tasks) < MaxFaultTasks /\ \E u \in Users : Receive(u)
  \/ Idle /\ Len(tasks) < MaxFaultTasks /\ \E tm \in timerQueue : TimerFire(tm)
  \/ \E t \in TaskIds : Step(t)
  \/ \E t \in TaskIds : WriteFails(t)

SpecFault == Init /\ [][NextFault]_vars

\* events of the LINE handler and of the web application's webhook, one at a time
NextWeb ==
  \/ Idle /\ Len(tasks) < MaxWebTasks /\ \E u \in Users : Receive(u) \/ ReceiveCancel(u)
  \/ Idle /\ Len(tasks) < MaxWebTasks /\ \E tm \in timerQueue : TimerFire(tm)
  \/ Idle /\ Len(tasks) < MaxWebTasks /\ \E u \in Users : WebReceive(u)
  \/ \E t \in TaskIds : Step(t) \/ WebStep(t)

SpecWeb == Init /\ [][NextWeb]_vars

\* A long conversation: user 1 sent the start command and then a run of text messages, each
\* handled before the next arrived; the session is open, its timer armed by the last
\* message stored.  The runs leave the transcript at most CapSlack entries under the limit.
StartedLogs == <<CmdComplain, CmdComplain, BotStart>>

TextRun(n) == [i \in 1..n |-> UserText]

CapRuns == (MaxChatLogs - Len(StartedLogs) - CapSlack)..(MaxChatLogs - Len(StartedLogs))

InitCap ==
  /\ \E n \in CapRuns :
       sessions = <<[NewSession(1, 1) EXCEPT !.chat_logs = StartedLogs \o TextRun(n)]>>
  /\ tags = <<>>
  /\ activeComplaintSessions = [u \in Users |-> IF u = 1 THEN 1 ELSE 0]
  /\ timerQueue = {[id |-> 1, user |-> 1]}
  /\ tasks = <<>>
  /\ clock = 1

NextCap ==
  \/ Idle /\ Len(tasks) < MaxCapTasks /\ \E u \in Users : Receive(u)
  \/ Idle /\ Len(tasks) < MaxCapTasks /\ \E tm \in timerQueue : TimerFire(tm)
  \/ \E t \in TaskIds : Step(t)

SpecCap == InitCap /\ [][NextCap]_vars

\* The users send a bounded number of events and then nothing further; a pending timer
\* fires after its delay and a handler that was started runs on.
NextCapLive ==
  \/ Idle /\ Len(tasks) < MaxCapTasks /\ \E u \in Users : Receive(u)
  \/ Idle /\ \E tm \in timerQueue : TimerFire(tm)
  \/ \E t \in TaskIds : Step(t)

SpecCapLive ==
  /\ InitCap /\ [][NextCapLive]_vars
  /\ WF_vars(Idle /\ \E tm \in timerQueue : TimerFire(tm))
  /\ WF_vars(\E t \in TaskIds : Step(t))

\* the events of both webhooks after the long conversation of user 1
SpecCapWeb == InitCap /\ [][NextWeb]_vars

\* Two users each went through start, a text and submit; nothing was enriched yet.  From
\* there single enrichments and catch-up sweeps run.
SubmittedLogs == StartedLogs \o <<UserText, CmdSubmit, BotSubmitted, BotSubmit>>

InitSweep ==
  /\ sessions = [s \in 1..2 |-> [NewSession(s, s) EXCEPT !.status = "submitted", !.end_time = s,
                                                       !.chat_logs = SubmittedLogs]]
  /\ tags = <<>>
  /\ activeComplaintSessions = [u \in Users |-> 0]
  /\ timerQueue = {}
  /\ tasks = <<>>
  /\ clock = 3

NextSweep ==
  \/ EnrichLoad(Len(tasks)) + 1 <= MaxSweepTasks /\ \E sid \in Ids : ProcessComplaint(sid)
  \/ \E lim \in 1..MaxLimit :
       EnrichLoad(Len(tasks)) + 1 + lim <= MaxSweepTasks /\ AutoProcess(lim)
  \/ \E t \in TaskIds : EnrichStep(t)

SpecSweep == InitSweep /\ [][NextSweep]_vars

\* The catch-up sweep run again and again (a scheduler calling autoProcessUnprocessed): a
\* new sweep starts when the one before has returned, whose bookkeeping is then dropped.
RepeatSweep(lim) ==
  /\ Idle
  /\ tasks' = <<[NewTask("sweep", 0, "g_find") EXCEPT !.limit = lim]>>
  /\ UNCHANGED <<sessions, tags, activeComplaintSessions, timerQueue, clock>>

NextSweepLive ==
  \/ \E lim \in 1..MaxLimit : RepeatSweep(lim)
  \/ \E t \in TaskIds : EnrichStep(t)

SpecSweepLive ==
  /\ InitSweep /\ [][NextSweepLive]_vars
  /\ WF_vars(\E lim \in 1..MaxLimit : RepeatSweep(lim))
  /\ WF_vars(\E t \in TaskIds : EnrichStep(t))

\* ------------------------------------------------------------------------
\* validateAIResponse on the values JSON.parse yields.  A JavaScript value is a record of
\* its type t, its number n in tenths (7.5 is 75) and its string s; NaN is a value of its
\* own type.

JV(t, n, s) == [t |-> t, n |-> n, s |-> s]
JUndef == JV("undef", 0, "")
JNum(n) == JV("num", n, "")
JNaN == JV("nan", 0, "")
JStr(x) == JV("str", 0, x)

\* the falsy values: undefined, null, false, 0, NaN, ''
Truthy(v) ==
  CASE v.t \in {"undef", "null", "nan"} -> FALSE
    [] v.t = "bool" -> v.n = 1
    [] v.t = "num" -> v.n # 0
    [] v.t = "str" -> v.s # ""
    [] OTHER -> TRUE

\* v || d
OrElse(v, d) == IF Truthy(v) THEN v ELSE d

\* Number(s) on the strings of the vocabulary
StrToNumber(x) ==
  CASE x = "" -> JNum(0)
    [] x = "0.5" -> JNum(5)
    [] x = "7" -> JNum(70)
    [] OTHER -> JNaN

\* parseInt(s) and parseFloat(s) on them: the longest numeric prefix, whole for parseInt
StrParse(x, whole) ==
  CASE x = "0.5" -> JNum(IF whole THEN 0 ELSE 5)
    [] x = "7" -> JNum(70)
    [] x = "3abc" -> JNum(30)
    [] OTHER -> JNaN

\* the ToNumber conversion Math.min and Math.max apply to their arguments
ToNumber(v) ==
  CASE v.t = "undef" -> JNaN
    [] v.t = "null" -> JNum(0)
    [] v.t = "bool" -> JNum(v.n * 10)
    [] v.t = "num" -> v
    [] v.t = "nan" -> JNaN
    [] v.t = "str" -> StrToNumber(v.s)
    [] v.t = "arr" -> JNum(0)
    [] OTHER -> JNaN

MathMin(a, b) ==
  LET x == ToNumber(a) y == ToNumber(b) IN
  IF x.t = "nan" \/ y.t = "nan" THEN JNaN ELSE IF x.n <= y.n THEN x ELSE y

MathMax(a, b) ==
  LET x == ToNumber(a) y == ToNumber(b) IN
  IF x.t = "nan" \/ y.t = "nan" THEN JNaN ELSE IF x.n >= y.n THEN x ELSE y

\* parseInt(v) reads the string of v: of a number, its integer part toward zero
ParseInt(v) ==
  CASE v.t = "num" ->
         JNum(IF v.n >= 0 THEN (v.n \div 10) * 10 ELSE 0 - (((0 - v.n) \div 10) * 10))
    [] v.t = "str" -> StrParse(v.s, TRUE)
    [] OTHER -> JNaN

ParseFloat(v) ==
  CASE v.t = "num" -> v
    [] v.t = "str" -> StrParse(v.s, FALSE)
    [] OTHER -> JNaN

\* String(v || '') on the values of a word
WordString(v) == IF v.t = "str" THEN v.s ELSE IF Truthy(v) THEN "string" ELSE ""

\* array.slice(0, n)
Slice(q, n) == SubSeq(q, 1, IF Len(q) < n THEN Len(q) ELSE n)

validSentiments == {"positive", "neutral", "negative"}

validCategories ==
  {"workplace_harassment", "discrimination", "unfair_treatment", "work_conditions",
   "management_issues", "compensation_benefits", "workload_stress", "safety_concerns",
   "policy_violations", "communication_issues", "other"}

validSeverities == {"low", "medium", "high", "critical"}

\* array.includes(v): v is one of the strings
Includes(S, v) == v.t = "str" /\ v.s \in S

MaxSecondary == 3
MaxKeywords == 50

\* the object of one keyword the map callback returns; k.word of a number or string is
\* undefined
KeywordOut(k) ==
  [word |-> WordString(k.word),
   frequency |-> MathMax(JNum(10), OrElse(ParseInt(k.frequency), JNum(10))),
   relevance_score |-> MathMax(JNum(0), MathMin(JNum(10), OrElse(ParseFloat(k.relevance_score), JNum(5))))]

\* a filter that keeps every element
KeepsEveryCategory(c) == TRUE

\* cat => validCategories.includes(cat)
IsValidCategory(c) == Includes(validCategories, c)

\* a parsed response: top is the kind of the parsed value; the fields read through ?. are
\* undefined when the value, or the section that holds them, is no object
Validated(r) ==
  [sentiment_analysis |->
     [overall_sentiment |->
        LET v == OrElse(r.overall_sentiment, JStr("neutral"))
        IN IF Includes(validSentiments, v) THEN v ELSE JStr("neutral"),
      sentiment_score |-> MathMax(JNum(-10), MathMin(JNum(10), OrElse(r.sentiment_score, JNum(0)))),
      confidence_level |-> MathMax(JNum(0), MathMin(JNum(10), OrElse(r.confidence_level, JNum(5))))],
   issue_classification |->
     [primary_category |->
        LET v == OrElse(r.primary_category, JStr("other"))
        IN IF Includes(validCategories, v) THEN v ELSE JStr("other"),
      secondary_categories |->
        IF r.secondaryIsArray
        THEN SelectSeq(Slice(r.secondary_categories, MaxSecondary), IsValidCategory)
        ELSE <<>>,
      severity_level |->
        LET v == OrElse(r.severity_level, JStr("medium"))
        IN IF Includes(validSeverities, v) THEN v ELSE JStr("medium"),
      urgency_score |-> MathMax(JNum(10), MathMin(JNum(100), OrElse(r.urgency_score, JNum(50))))],
   keywords |->
     IF r.keywordsIsArray
     THEN [i \in 1..Len(Slice(r.keywords, MaxKeywords)) |-> KeywordOut(r.keywords[i])]
     ELSE <<>>]

\* response.sentiment_analysis of null, and k.word of a null element, are TypeErrors
Throws(r) ==
  \/ r.top = "null"
  \/ r.top = "object" /\ r.keywordsIsArray
       /\ \E i \in 1..Len(Slice(r.keywords, MaxKeywords)) : r.keywords[i].t = "null"

\* an object without the fields the sanitizer reads; a number, string or array is read
\* the same way
Bare(top) ==
  [top |-> top, overall_sentiment |-> JUndef, sentiment_score |-> JUndef,
   confidence_level |-> JUndef, primary_category |-> JUndef, secondaryIsArray |-> FALSE,
   secondary_categories |-> <<>>, severity_level |-> JUndef, urgency_score |-> JUndef,
   keywordsIsArray |-> FALSE, keywords |-> <<>>]

\* undefined, null, true, [], {}, strings and numbers
NumberSlots ==
  {JUndef, JV("null", 0, ""), JV("bool", 1, ""), JV("arr", 0, ""), JV("obj", 0, ""),
   JStr("abc"), JStr("0.5"), JStr("7")}
  \cup {JNum(n) : n \in {-20, -10, -5, 0, 5, 10, 15, 75, 70, 100, 110}}

LabelSlots ==
  {JUndef, JV("null", 0, ""), JNum(50), JStr(""), JStr("abc"), JStr("positive"), JStr("negative"),
   JStr("other"), JStr("discrimination"), JStr("low"), JStr("critical")}

MaxSecondaryIn == 4

CategoryLists ==
  UNION {[1..n -> {JStr("other"), JStr("discrimination"), JStr("abc"), JV("null", 0, "")}] :
           n \in 0..MaxSecondaryIn}

\* an element of the keywords array: null, a scalar, or an object
KeywordItem(t, w, f, rel) == [t |-> t, word |-> w, frequency |-> f, relevance_score |-> rel]

KeywordItems ==
  {KeywordItem("null", JUndef, JUndef, JUndef), KeywordItem("scalar", JUndef, JUndef, JUndef)}
  \cup {KeywordItem("obj", w, f, rel) :
          w \in {JUndef, JStr("w")},
          f \in {JUndef, JNum(0), JNum(27), JNum(30), JNum(-10), JStr("abc"), JStr("3abc")},
          rel \in {JUndef, JNum(-5), JNum(0), JNum(5), JNum(10), JNum(15), JStr("abc"),
                   JStr("0.5")}}

MaxKeywordsIn == 1

KeywordLists == UNION {[1..n -> KeywordItems] : n \in 0..MaxKeywordsIn}

Responses ==
  {Bare(top) : top \in {"null", "scalar", "array", "object"}}
  \cup {[Bare("object") EXCEPT !.overall_sentiment = l, !.sentiment_score = x,
                               !.confidence_level = y] :
          l \in LabelSlots, x \in NumberSlots, y \in {JUndef, JNum(-5), JNum(0), JNum(5), JNum(10), JNum(15), JStr("abc")}}
  \cup {[Bare("object") EXCEPT !.primary_category = l, !.severity_level = v,
                               !.urgency_score = x] :
          l \in LabelSlots, v \in LabelSlots, x \in NumberSlots}
  \cup {[Bare("object") EXCEPT !.secondaryIsArray = TRUE, !.secondary_categories = q] :
          q \in CategoryLists}
  \cup {[Bare("object") EXCEPT !.keywordsIsArray = TRUE, !.keywords = q] :
          q \in KeywordLists}

\* validateAIResponse(aiAnalysis) is called and returns or throws; when it throws no
\* record is returned and validated is not to be read
ValidateAIResponse(r) ==
  /\ tasks = <<>>
  /\ tasks' = Append(tasks,
       [kind |-> "validate", pc |-> "done", response |-> r, threw |-> Throws(r),
        validated |-> Validated(IF Throws(r) THEN Bare("object") ELSE r)])
  /\ UNCHANGED <<sessions, tags, activeComplaintSessions, timerQueue, clock>>

NextValidate == \E r \in Responses : ValidateAIResponse(r)

SpecValidate == Init /\ [][NextValidate]_vars

\* ------------------------------------------------------------------------
\* Properties

OpenSessions(u) == {s \in SessionIds : sessions[s].user_id = u /\ sessions[s].status = "open"}

\* an entry the user authored that is no command
IsUserContent(e) == e.direction = "user" /\ e.message_type # "command"

UserContent(logs) == \E i \in 1..Len(logs) : IsUserContent(logs[i])

TagsOf(s) == {i \in 1..Len(tags) : tags[i].complaint_session_id = s}

Done(t, k) == tasks[t].kind = k /\ tasks[t].pc = "done"

\* C1: with chat events and timeouts handled one at a time, every user has at most
\* one session with status open, in every state.
AtMostOneOpen == \A u \in Users : Cardinality(OpenSessions(u)) <= 1

\* C1 witness: a user restarted after a submitted session, and a further start command
\* met the open session and was answered with it.
AtMostOneOpenWitness ==
  \E t \in TaskIds, s1, s2 \in SessionIds :
    /\ Done(t, "start") /\ tasks[t].reply = "existing" /\ tasks[t].sid = s2
    /\ sessions[s1].user_id = tasks[t].user /\ sessions[s1].status = "submitted"
    /\ sessions[s2].user_id = tasks[t].user /\ sessions[s2].status = "open"

\* C2: two start commands of one user without an open session, handled concurrently,
\* create exactly one session and both replies carry the same complaint id.
ConcurrentStartsOneSession ==
  \A t1, t2 \in TaskIds :
    ( /\ t1 < t2 /\ Done(t1, "start") /\ Done(t2, "start")
      /\ tasks[t1].user = tasks[t2].user
      /\ t1 \in tasks[t2].overlap
      /\ ~tasks[t1].hadOpen /\ ~tasks[t2].hadOpen )
    => /\ tasks[t1].sid = tasks[t2].sid
       /\ tasks[t1].replyCid # 0
       /\ tasks[t1].replyCid = tasks[t2].replyCid

\* C3: a timeout handler that found an open session without user content does not
\* submit it (it cancels it).
TimeoutWithoutContentCancels ==
  \A t \in TaskIds :
    (tasks[t].kind = "timeout" /\ tasks[t].pc = "x_clear" /\ tasks[t].result = "auto_submitted")
    => UserContent(tasks[t].doc.chat_logs)

\* C4: a submit command, in the chat or through complaint.submit, submits only a
\* session whose transcript has user content.
SubmitNeedsUserContent ==
  \A t \in TaskIds :
    (tasks[t].kind \in {"submit", "trpc_submit"} /\ tasks[t].result = "submitted")
    => UserContent(sessions[tasks[t].sid].chat_logs)

\* C5: a session that is submitted or cancelled is never changed by a later step:
\* status, end_time and transcript stay as they are.
TerminalImmutable ==
  [][\A s \in SessionIds :
       sessions[s].status \in {"submitted", "cancelled"} => sessions'[s] = sessions[s]]_vars

\* C6: of two enrichment invocations in sequence on one submitted session, the Provider
\* answering well where it is called, exactly one record is left, the second invocation
\* makes no Provider call and returns what the first returned.
EnrichTwiceOneRecord ==
  \A e1, e2 \in TaskIds :
    ( /\ e1 < e2 /\ Done(e1, "enrich") /\ Done(e2, "enrich")
      /\ e1 \notin tasks[e2].overlap
      /\ tasks[e1].sid = tasks[e2].sid /\ tasks[e1].sid \in SessionIds
      /\ sessions[tasks[e1].sid].status = "submitted"
      /\ {tasks[e1].result, tasks[e2].result} \cap {"provider_error", "invalid_json"} = {} )
    => /\ Cardinality(TagsOf(tasks[e1].sid)) = 1
       /\ ~tasks[e2].called
       /\ tasks[e2].summary = tasks[e1].summary

\* C7: in every state there is at most one record per session.
OneRecordPerSession == \A s \in SessionIds : Cardinality(TagsOf(s)) <= 1

\* C7 witness: two invocations for one session from different paths (a single item and
\* an item of a batch or sweep) overlapped, both called the Provider, one created the
\* record and the other was refused by the unique index.
OneRecordPerSessionWitness ==
  \E e1, e2 \in TaskIds :
    /\ Done(e1, "enrich") /\ Done(e2, "enrich")
    /\ tasks[e1].sid = tasks[e2].sid
    /\ tasks[e1].parent = 0 /\ tasks[e2].parent # 0
    /\ {tasks[e1].result, tasks[e2].result} = {"created", "duplicate_key"}

\* C8: a record is created only for a session whose status is submitted at that moment.
RecordOnlyForSubmitted ==
  [][\A i \in 1..Len(tags') :
       i > Len(tags) => sessions[tags'[i].complaint_session_id].status = "submitted"]_vars

\* C9: when a handler that submitted a session has returned, an enrichment invocation
\* for that session exists that this handler dispatched.
SubmitDispatchesEnrichment ==
  \A t \in TaskIds :
    (tasks[t].pc = "done" /\ tasks[t].result \in {"submitted", "auto_submitted"})
    => \E e \in TaskIds : tasks[e].kind = "enrich" /\ tasks[e].sid = tasks[t].sid
                          /\ tasks[e].parent = t

\* C10: a timeout handler does not submit a session that a submit command submits:
\* no session is submitted by both.
TimeoutNoSecondSubmit ==
  \A t, b \in TaskIds :
    ( /\ tasks[t].kind = "timeout" /\ tasks[t].result = "auto_submitted"
      /\ tasks[b].kind = "submit" /\ tasks[b].result = "submitted" )
    => tasks[t].sid # tasks[b].sid

\* C11: a chat handler in which a store write failed ends with the apology as its
\* reply, never with a success acknowledgment.
NoAckAfterWriteFailure ==
  \A t \in TaskIds :
    ( /\ tasks[t].kind \in {"text", "media", "start", "submit"} /\ tasks[t].pc = "done"
      /\ tasks[t].result \in {"swallowed", "error"} )
    => tasks[t].reply = "error"

\* C12: between events, no start that replied with the error has left a session, and
\* no open session holds a submit command or a timeout note.
FailedTransitionLeavesNoTrace ==
  Idle =>
    /\ \A t \in TaskIds :
         (Done(t, "start") /\ tasks[t].reply = "error") => tasks[t].sid = 0
    /\ \A s \in SessionIds :
         sessions[s].status = "open" =>
           \A i \in 1..Len(sessions[s].chat_logs) :
             sessions[s].chat_logs[i] \notin {CmdSubmit, SysTimeout}

\* the transcript entry a message handler appends
EntryOf(k) == IF k = "text" THEN UserText ELSE UserMedia

\* C13: of two messages of one user handled concurrently, a text and a media message,
\* both appended to the same session, the entry of the one that arrived first stands
\* before the entry of the other in the transcript (and neither is missing).
MessagesInArrivalOrder ==
  \A t1, t2 \in TaskIds :
    ( /\ t1 < t2 /\ t1 \in tasks[t2].overlap
      /\ tasks[t1].user = tasks[t2].user
      /\ {tasks[t1].kind, tasks[t2].kind} = {"text", "media"}
      /\ tasks[t1].result = "added" /\ tasks[t2].result = "added"
      /\ tasks[t1].sid = tasks[t2].sid )
    => LET logs == sessions[tasks[t1].sid].chat_logs IN
       \E i, j \in 1..Len(logs) :
         i < j /\ logs[i] = EntryOf(tasks[t1].kind) /\ logs[j] = EntryOf(tasks[t2].kind)

IsPrefix(a, b) == Len(a) <= Len(b) /\ SubSeq(b, 1, Len(a)) = a

CancelCommandCancels ==
  \A t \in TaskIds :
    ( /\ t = Len(tasks)
      /\ tasks[t].kind \in {"cancel", "web_cancel"}
      /\ tasks[t].pc = "done"
      /\ tasks[t].sid # 0 )
    => /\ sessions[tasks[t].sid].status = "cancelled"
       /\ sessions[tasks[t].sid].end_time # 0
       /\ sessions[tasks[t].sid].chat_logs # <<>>
       /\ \A tm \in timerQueue : tm.user # tasks[t].user

\* C15: between events, every user who has an open session has a pending inactivity
\* timer, whichever entry point created the session
OpenSessionHasTimer ==
  Idle => \A u \in Users : FindOpen(u) # 0 => \E tm \in timerQueue : tm.user = u

\* C16: between events, a user without an open session has no pending inactivity timer:
\* every terminal transition, through any entry point, cleared it
NoTimerWithoutOpenSession ==
  Idle => \A tm \in timerQueue : FindOpen(tm.user) # 0

\* C17: each user has at most one pending inactivity timer at every moment, and a pending
\* timer is the one registered for its user: a timer that was superseded cannot fire
OneTimerPerUser ==
  /\ \A u \in Users : Cardinality({tm \in timerQueue : tm.user = u}) <= 1
  /\ \A tm \in timerQueue : activeComplaintSessions[tm.user] = tm.id

\* a message re-armed the timer that the start command of the same user had armed
OneTimerPerUserWitness ==
  \E t1, t2 \in TaskIds :
    /\ t1 < t2
    /\ tasks[t1].user = tasks[t2].user
    /\ Done(t1, "start") /\ tasks[t1].result = "started"
    /\ Done(t2, "text") /\ tasks[t2].result = "added"
    /\ t1 \notin tasks[t2].overlap
    /\ \E tm \in timerQueue : tm.user = tasks[t2].user /\ activeComplaintSessions[tm.user] = tm.id

\* C18: a start command answered with the existing complaint of an open session counts as
\* activity: when its handler ends, the user's timer was replaced by a newly armed one
StartOnOpenRearms ==
  [][\A t \in TaskIds :
       ( /\ tasks[t].kind = "start"
         /\ tasks[t].pc = "s_find"
         /\ tasks'[t].pc = "done"
         /\ tasks'[t].reply = "existing" )
       => /\ timerQueue' = SetupQueue(tasks[t].user)
          /\ activeComplaintSessions' = SetupMap(tasks[t].user)]_vars

\* C20: a submit command for an open session that holds a user text succeeds: the command
\* is in the transcript, the session is submitted with its end time set, and no timer of
\* the user is pending
SubmitWithTextSucceeds ==
  \A t \in TaskIds :
    ( /\ t = Len(tasks)
      /\ Done(t, "submit")
      /\ tasks[t].sid # 0
      /\ \E i \in 1..Len(sessions[tasks[t].sid].chat_logs) :
           sessions[tasks[t].sid].chat_logs[i] = UserText )
    => /\ sessions[tasks[t].sid].status = "submitted"
       /\ sessions[tasks[t].sid].end_time # 0
       /\ \E i \in 1..Len(sessions[tasks[t].sid].chat_logs) :
            sessions[tasks[t].sid].chat_logs[i] = CmdSubmit
       /\ \A tm \in timerQueue : tm.user # tasks[t].user

\* C21: when the inactivity timer fires for an open session that holds user content, the
\* session ends submitted, with its end time set and the timeout note in its transcript
TimeoutWithContentSubmits ==
  \A t \in TaskIds :
    ( /\ t = Len(tasks)
      /\ Done(t, "timeout")
      /\ tasks[t].sid # 0
      /\ UserContent(sessions[tasks[t].sid].chat_logs) )
    => /\ sessions[tasks[t].sid].status = "submitted"
       /\ sessions[tasks[t].sid].end_time # 0
       /\ \E i \in 1..Len(sessions[tasks[t].sid].chat_logs) :
            sessions[tasks[t].sid].chat_logs[i] = SysTimeout

FromUser(e) == e.direction = "user"

\* C22: after a start command, one text message and a submit command of a user who had
\* no session, that user has exactly one session, it is submitted, and the entries of
\* direction user in its transcript are three: the start command, the text, the submit
\* command
StartTextSubmitTranscript ==
  \A u \in Users :
    ( /\ Len(tasks) = 3
      /\ \A t \in TaskIds : tasks[t].user = u
      /\ Done(1, "start") /\ Done(2, "text") /\ Done(3, "submit") )
    => /\ Cardinality({s \in SessionIds : sessions[s].user_id = u}) = 1
       /\ \A s \in SessionIds : sessions[s].user_id = u =>
            /\ sessions[s].status = "submitted"
            /\ SelectSeq(sessions[s].chat_logs, FromUser) = <<CmdComplain, UserText, CmdSubmit>>

Validations == {t \in TaskIds : tasks[t].kind = "validate"}

\* a number, not NaN, between lo and hi tenths
NumberIn(v, lo, hi) == v.t = "num" /\ lo <= v.n /\ v.n <= hi

WholeNumber(v) == v.t = "num" /\ v.n % 10 = 0

\* C23: whatever the parsed response holds, the record the sanitizer returns has its
\* sentiment score in [-1,1], its confidence in [0,1], every keyword relevance in [0,1],
\* every keyword frequency an integer of at least 1, and its urgency an integer in [1,10]
SanitizedNumbersInRange ==
  \A t \in Validations :
    ~tasks[t].threw =>
      LET v == tasks[t].validated IN
      /\ NumberIn(v.sentiment_analysis.sentiment_score, -10, 10)
      /\ NumberIn(v.sentiment_analysis.confidence_level, 0, 10)
      /\ NumberIn(v.issue_classification.urgency_score, 10, 100)
      /\ WholeNumber(v.issue_classification.urgency_score)
      /\ \A i \in 1..Len(v.keywords) :
           /\ WholeNumber(v.keywords[i].frequency) /\ v.keywords[i].frequency.n >= 10
           /\ NumberIn(v.keywords[i].relevance_score, 0, 10)

\* C24: the sanitizer throws for no value that parsing the Provider text can yield: null,
\* scalars, arrays, keyword lists with null elements; it returns a record every time
SanitizerNeverThrows ==
  \A t \in Validations : ~tasks[t].threw

\* the closed sets hold for the record the sanitizer returned
EnumsInSets(v) ==
  /\ Includes(validSentiments, v.sentiment_analysis.overall_sentiment)
  /\ Includes(validCategories, v.issue_classification.primary_category)
  /\ Includes(validSeverities, v.issue_classification.severity_level)
  /\ Len(v.issue_classification.secondary_categories) <= 3
  /\ \A i \in 1..Len(v.issue_classification.secondary_categories) :
       Includes(validCategories, v.issue_classification.secondary_categories[i])

\* a value outside its set was replaced by neutral, other, medium; one inside was kept
EnumsSubstituted(r, v) ==
  /\ v.sentiment_analysis.overall_sentiment =
       IF Includes(validSentiments, r.overall_sentiment) THEN r.overall_sentiment ELSE JStr("neutral")
  /\ v.issue_classification.primary_category =
       IF Includes(validCategories, r.primary_category) THEN r.primary_category ELSE JStr("other")
  /\ v.issue_classification.severity_level =
       IF Includes(validSeverities, r.severity_level) THEN r.severity_level ELSE JStr("medium")

\* C25: the record the sanitizer returns for a parsed response has its sentiment label,
\* primary category and severity in their closed sets, with neutral, other and medium in
\* the place of any value outside its set, and at most 3 secondary categories, each in
\* the category set
SanitizedEnumsWhenReturned ==
  \A t \in Validations :
    ~tasks[t].threw =>
      /\ EnumsInSets(tasks[t].validated)
      /\ EnumsSubstituted(tasks[t].response, tasks[t].validated)

\* a response with a category and a severity outside their sets came back with other
\* and medium
SanitizedEnumsWitness ==
  \E t \in Validations :
    /\ ~tasks[t].threw
    /\ tasks[t].response.primary_category = JStr("abc")
    /\ tasks[t].response.severity_level = JNum(50)
    /\ tasks[t].validated.issue_classification.primary_category = JStr("other")
    /\ tasks[t].validated.issue_classification.severity_level = JStr("medium")

\* C26: every message body in the prompt sent to the Provider is the cleaned body of a
\* transcript entry of direction user and kind text: no body of a bot, system or command
\* entry is in it
PromptOnlyUserText ==
  \A t \in TaskIds :
    (tasks[t].kind = "enrich" /\ tasks[t].pc = "e_call") =>
      LET p == createAnalysisPrompt(tasks[t].doc)
          logs == tasks[t].doc.chat_logs
          bodies == p.userMessages \o p.botMessages
      IN \A i \in 1..Len(bodies) :
           \E j \in 1..Len(logs) :
             /\ logs[j].direction = "user" /\ logs[j].message_type = "text"
             /\ cleanUserMessage(logs[j].message) = bodies[i]

\* C27: an enrichment of a submitted session that failed at the Provider (an error such
\* as a timeout, a rate limit or an exhausted quota, or a text that does not parse) left
\* the failure stored for the session, in the processing_errors of a record
EnrichmentEndsRecorded ==
  \A t \in TaskIds :
    ( /\ Done(t, "enrich")
      /\ tasks[t].result \in {"provider_error", "invalid_json"}
      /\ tasks[t].sid \in SessionIds
      /\ sessions[tasks[t].sid].status = "submitted" )
    => \E i \in 1..Len(tags) :
         /\ tags[i].complaint_session_id = tasks[t].sid
         /\ tags[i].processing_errors # <<>>

EnrichKinds == {"enrich", "batch", "sweep"}

\* C28: enrichment never alters a session: over every step in which an enrichment, a
\* batch or a sweep starts or moves, whatever the Provider answers, every session keeps
\* its status, end time and transcript
EnrichmentLeavesSessions ==
  [][(\E t \in 1..Len(tasks') :
        /\ tasks'[t].kind \in EnrichKinds
        /\ (t > Len(tasks) \/ tasks'[t] # tasks[t]))
     => sessions' = sessions]_vars

\* an enrichment of a submitted session failed at the Provider and the session is as
\* it was submitted
EnrichmentLeavesSessionsWitness ==
  \E t \in TaskIds :
    /\ Done(t, "enrich")
    /\ tasks[t].result \in {"provider_error", "invalid_json"}
    /\ tasks[t].sid \in SessionIds
    /\ sessions[tasks[t].sid].status = "submitted"
    /\ sessions[tasks[t].sid].end_time # 0

\* C29: when the enrichment of a submitted session failed at the Provider, the session is
\* still submitted, and once a later catch-up sweep has run with the Provider answering
\* well, the session has exactly one analysis record
SweepRecoversFailed ==
  \A e, g \in TaskIds :
    ( /\ Done(e, "enrich") /\ tasks[e].result = "provider_error"
      /\ tasks[e].sid \in SessionIds
      /\ Done(g, "sweep")
      /\ e < g /\ e \notin tasks[g].overlap
      /\ \A c \in TaskIds :
           tasks[c].parent = g => tasks[c].result \notin {"provider_error", "invalid_json"} )
    => /\ sessions[tasks[e].sid].status = "submitted"
       /\ Cardinality(TagsOf(tasks[e].sid)) = 1

Count(q, x) == Cardinality({i \in 1..Len(q) : q[i] = x})

BatchRuns == {b \in TaskIds : tasks[b].kind \in {"batch", "sweep"} /\ tasks[b].result = "batch_done"}

CallsInFlight(b) == {c \in TaskIds : tasks[c].parent = b /\ tasks[c].pc = "e_call"}

CreatedIdWasChecked ==
  \A t \in TaskIds :
    ( /\ tasks[t].kind \in {"start", "trpc_create"}
      /\ tasks[t].pc \notin {"c_open", "c_uniq", "c_save"}
      /\ tasks[t].sid # 0 /\ tasks[t].cid # 0 )
    => tasks[t].attempts < MaxAttempts

OpenSessionEventuallyCloses ==
  \A s \in 1..(MaxCapTasks + 1) :
    (s \in SessionIds /\ sessions[s].status = "open")
      ~> (s \in SessionIds /\ sessions[s].status \in {"submitted", "cancelled"})

\* C36: when the Provider answers every call of the catch-up sweeps, the repeated sweeps
\* eventually leave every submitted session with an analysis record
SweepsEventuallyCoverAll ==
  [](\A c \in TaskIds : tasks[c].result \notin {"provider_error", "invalid_json"})
    => <>(\A s \in SessionIds : sessions[s].status = "submitted" => TagsOf(s) # {})

\* C37: an enrichment of a submitted session for which the Provider returned a
\* well-formed analysis leaves the session with an analysis record, whatever its
\* transcript holds
AnsweredEnrichmentPersists ==
  \A t \in TaskIds :
    ( /\ Done(t, "enrich") /\ tasks[t].called
      /\ tasks[t].result \notin {"provider_error", "invalid_json"}
      /\ tasks[t].sid \in SessionIds
      /\ sessions[tasks[t].sid].status = "submitted" )
    => TagsOf(tasks[t].sid) # {}

\* C38: the sanitizer returns unchanged every numeric field whose value is a number
\* already in its range: a sentiment score in [-1,1], a confidence in [0,1], an integer
\* urgency in [1,10], an integer keyword frequency of at least 1 and a keyword relevance
\* in [0,1], the boundary values included
SanitizerKeepsInRange ==
  \A t \in Validations :
    ~tasks[t].threw =>
      LET r == tasks[t].response
          v == tasks[t].validated
          Kept(in, out, lo, hi) == NumberIn(in, lo, hi) => out = in
      IN
      /\ Kept(r.sentiment_score, v.sentiment_analysis.sentiment_score, -10, 10)
      /\ Kept(r.confidence_level, v.sentiment_analysis.confidence_level, 0, 10)
      /\ WholeNumber(r.urgency_score)
           => Kept(r.urgency_score, v.issue_classification.urgency_score, 10, 100)
      /\ \A i \in 1..Len(v.keywords) :
           r.keywords[i].t = "obj" =>
             /\ Kept(r.keywords[i].relevance_score, v.keywords[i].relevance_score, 0, 10)
             /\ (WholeNumber(r.keywords[i].frequency) /\ r.keywords[i].frequency.n >= 10)
                  => v.keywords[i].frequency = r.keywords[i].frequency

\* C39: when a batch run has completed, an id whose item found an analysis record already
\* present is reported in skipped, and, when the input holds it once, neither in
\* processed nor in errors
ExistingItemSkipped ==
  \A b \in BatchRuns :
    \A c \in TaskIds :
      (tasks[c].parent = b /\ tasks[c].result = "existing") =>
        /\ Count(tasks[b].skipped, tasks[c].sid) >= 1
        /\ Count(tasks[b].ids, tasks[c].sid) = 1 =>
             /\ Count(tasks[b].processed, tasks[c].sid) = 0
             /\ Count(tasks[b].errors, tasks[c].sid) = 0

\* C40: of two enrichment invocations for one session that overlap, the Provider
\* answering well and the record passing its validation, at most one calls the Provider
\* and both end without an error
OverlappingEnrichOneCall ==
  \A e1, e2 \in TaskIds :
    ( /\ e1 < e2 /\ Done(e1, "enrich") /\ Done(e2, "enrich")
      /\ e1 \in tasks[e2].overlap
      /\ tasks[e1].sid = tasks[e2].sid /\ tasks[e1].sid \in SessionIds
      /\ {tasks[e1].result, tasks[e2].result}
           \cap {"provider_error", "invalid_json", "validation_error"} = {} )
    => /\ ~(tasks[e1].called /\ tasks[e2].called)
       /\ {tasks[e1].result, tasks[e2].result} \subseteq {"created", "existing"}


====
